---- MODULE Spec2Model ----
(***************************************************************************)
(* KanMind backend: the board / task / comment API of kanban_app and its   *)
(* permission checks, as a state machine over the relational store.        *)
(* One action per HTTP handler of kanban_app/api/views.py; every action    *)
(* records the request it served in `last` and the response in `resp`.     *)
(***************************************************************************)
EXTENDS Integers, Sequences, FiniteSets, TLC

\* ------------------------------------------------------------------ bounds
MaxUsers == 3
MaxBoards == 1
MaxTasks == 1
MaxComments == 1
MaxMembersLen == 1

VARIABLES
    users,          \* ids of the User rows
    boards,         \* Board rows: id -> [title, owner]
    board_members,  \* BoardMember rows: set of <<board id, user id>>
    tasks,          \* Task rows: id -> [board, title, ..., assignee, reviewer]
    comments,       \* Comment rows: id -> [task, author, content]
    seq,            \* auto-increment counters of the three kanban tables
    last,           \* the request served by the last step
    resp,           \* its response
    pre,            \* the stored rows as that request found them
    guest,          \* the User rows with the guest email: id -> [fullname]
    procs,          \* the invocations that run concurrently, each with its locals
    lock            \* the locks held on the sqlite3 database file

vars == <<users, boards, board_members, tasks, comments, seq, last, resp, pre,
          guest, procs, lock>>

\* What only the concurrent invocations write.
conc == <<guest, procs, lock>>
db == <<users, boards, board_members, tasks, comments, seq>>

\* The stored rows, as one value.
Rows == [users |-> users, boards |-> boards, board_members |-> board_members,
         tasks |-> tasks, comments |-> comments, seq |-> seq]

\* ------------------------------------------------------------- vocabulary
None == 0

HTTP_200_OK == 200
HTTP_201_CREATED == 201
HTTP_204_NO_CONTENT == 204
HTTP_400_BAD_REQUEST == 400
HTTP_403_FORBIDDEN == 403
HTTP_404_NOT_FOUND == 404
HTTP_405_METHOD_NOT_ALLOWED == 405

StatusChoices == {"to-do", "in-progress", "review", "done"}
PriorityChoices == {"low", "medium", "high"}

\* A response: the status, the top-level keys of an error body, and the data
\* of a success body (its shape depends on the operation).
Response(status, keys, data) == [status |-> status, keys |-> keys, data |-> data]

\* A request: operation, authenticated user, ids of the URL, JSON payload.
Request(op, user, board_id, task_id, comment_id, payload) ==
    [op |-> op, user |-> user, board |-> board_id, task |-> task_id,
     comment |-> comment_id, payload |-> payload]

\* ------------------------------------------------------------ text fields
RECURSIVE lstrip(_)
lstrip(s) == IF s # <<>> /\ Head(s) = " " THEN lstrip(Tail(s)) ELSE s

RECURSIVE rstrip(_)
rstrip(s) == IF s # <<>> /\ s[Len(s)] = " " THEN rstrip(SubSeq(s, 1, Len(s) - 1)) ELSE s

\* str.strip()
strip(s) == rstrip(lstrip(s))

\* serializers.CharField(): trims, and rejects a value that is blank after
\* trimming; no length limits are declared on any title field.
CharFieldValid(s) == strip(s) # <<>>

\* The validated value of a CharField (trim_whitespace).
CharFieldValue(s) == strip(s)

Rep(n) == [i \in 1..n |-> "x"]

\* ------------------------------------------------------------ set helpers
Min(S) == CHOOSE x \in S : \A y \in S : x <= y

RECURSIVE SortedSeq(_)
SortedSeq(S) == IF S = {} THEN <<>> ELSE <<Min(S)>> \o SortedSeq(S \ {Min(S)})

Range(f) == {f[i] : i \in DOMAIN f}

\* ------------------------------------------------------------ ORM queries
\* board.members: the users joined to the board through BoardMember rows.
MembersIn(bm, board_id) == {r[2] : r \in {x \in bm : x[1] = board_id}}
members(board_id) == MembersIn(board_members, board_id)

TasksOfIn(ts, board_id) == {t \in DOMAIN ts : ts[t].board = board_id}
TasksOf(board_id) == TasksOfIn(tasks, board_id)

CommentsOfIn(cs, task_id) == {c \in DOMAIN cs : cs[c].task = task_id}
CommentsOf(task_id) == CommentsOfIn(comments, task_id)

\* Variant of Task.board that keeps the tasks of a deleted board.
cascade_tasks_none(board_id) == {}

\* Task.board is on_delete=CASCADE: the tasks deleted with the board.
cascade_tasks(board_id) == TasksOf(board_id)

\* Variant of Comment.task that keeps the comments of deleted tasks.
cascade_comments_none(task_ids) == {}

\* Comment.task is on_delete=CASCADE: the comments deleted with the tasks.
cascade_comments(task_ids) == {c \in DOMAIN comments : comments[c].task \in task_ids}

\* Variant of distinct() that returns the rows of the join as they are.
distinct_as_all(s) == s

\* QuerySet.distinct(): every row once, in the order of first occurrence.
distinct(s) == SelectSeq([i \in DOMAIN s |-> IF \E j \in 1..(i - 1) : s[j] = s[i]
                                             THEN None ELSE s[i]],
                         LAMBDA x : x # None)

\* The rows of Board LEFT JOIN BoardMember for one board, reduced to the user
\* id of the membership (None for a board without membership rows).
JoinedMembers(board_id) ==
    IF members(board_id) = {} THEN <<None>> ELSE SortedSeq(members(board_id))

\* Board.objects.filter(Q(owner_id=user.id) | Q(members__id=user.id)): the
\* board id of every joined row that passes the filter, boards ascending.
RECURSIVE FilterBoards(_, _)
FilterBoards(ids, u) ==
    IF ids = <<>> THEN <<>>
    ELSE LET b == Head(ids)
         IN  [i \in 1..Len(SelectSeq(JoinedMembers(b),
                              LAMBDA m : boards[b].owner = u \/ m = u)) |-> b]
             \o FilterBoards(Tail(ids), u)

accessible_boards(u) == FilterBoards(SortedSeq(DOMAIN boards), u)

\* ------------------------------------------------------- helper functions
\* Variants of is_board_member_or_owner with one of its two disjuncts lost.
is_board_owner_only(board_id, u) ==
    boards[board_id].owner = u

is_board_explicit_member_only(board_id, u) ==
    u \in members(board_id)

is_board_member_or_owner(board_id, u) ==
    boards[board_id].owner = u \/ u \in members(board_id)

forbid_403 == Response(HTTP_403_FORBIDDEN, {"detail"}, <<>>)

not_found_404 == Response(HTTP_404_NOT_FOUND, {"detail"}, <<>>)

\* Variant of ensure_board_member that lets only the owner through.
ensure_board_member_as_owner(board_id, u) == boards[board_id].owner # u

\* ensure_board_member: TRUE when the 403 response is to be returned.
ensure_board_member(board_id, u) == ~is_board_member_or_owner(board_id, u)

\* Variant of ensure_board_owner that lets every member through.
ensure_board_owner_as_member(board_id, u) == ~is_board_member_or_owner(board_id, u)

\* ensure_board_owner: TRUE when the 403 response is to be returned.
ensure_board_owner(board_id, u) == boards[board_id].owner # u

ValidationError(keys) == Response(HTTP_400_BAD_REQUEST, keys, <<>>)

\* ------------------------------------------------------------ serializers
\* validate_members: the ids of the list that name no user, ascending, and
\* the value it returns when there is none.
\* Variant of validate_members that compares the number of users found with
\* the length of the list.
missing_by_count(ids) ==
    IF Cardinality(Range(ids) \cap users) # Len(ids) THEN SortedSeq(Range(ids)) ELSE <<>>

missing(ids) == SortedSeq(Range(ids) \ users)

valid_ids(ids) == Range(ids) \cap users

\* BoardCreateSerializer: the set of fields with errors (both required).
BoardCreateErrors(p) ==
    (IF "title" \in DOMAIN p /\ CharFieldValid(p.title) THEN {} ELSE {"title"})
    \cup
    (IF "members" \in DOMAIN p /\ missing(p.members) = <<>> THEN {} ELSE {"members"})

\* Variant of BoardUpdateSerializer without validate_members.
BoardUpdateErrors_title_only(p) ==
    IF "title" \in DOMAIN p /\ ~CharFieldValid(p.title) THEN {"title"} ELSE {}

\* BoardUpdateSerializer(partial=True): the set of fields with errors.
BoardUpdateErrors(p) ==
    (IF "title" \in DOMAIN p /\ ~CharFieldValid(p.title) THEN {"title"} ELSE {})
    \cup
    (IF "members" \in DOMAIN p /\ missing(p.members) # <<>> THEN {"members"} ELSE {})

\* The ids named by the message of validate_members, "Unknown user IDs: ...",
\* in the order the message lists them; the body of a board validation error.
unknown_user_ids(p) == IF "members" \in DOMAIN p THEN missing(p.members) ELSE <<>>

BoardValidationError(keys, p) ==
    Response(HTTP_400_BAD_REQUEST, keys,
             IF "members" \in keys THEN unknown_user_ids(p) ELSE <<>>)

\* The item of the board list and of the board-create response.
BoardListItem(board_id, bs, bm, ts) ==
    [id |-> board_id,
     title |-> bs[board_id].title,
     member_count |-> Cardinality(MembersIn(bm, board_id)),
     ticket_count |-> Cardinality(TasksOfIn(ts, board_id)),
     tasks_to_do_count |->
        Cardinality({t \in TasksOfIn(ts, board_id) : ts[t].status = "to-do"}),
     tasks_high_prio_count |->
        Cardinality({t \in TasksOfIn(ts, board_id) : ts[t].priority = "high"}),
     owner_id |-> bs[board_id].owner]

\* TaskOnBoardSerializer / TaskDetailSerializer with the computed count.
serialize_task(task_id, ts, cs) ==
    [id |-> task_id,
     board |-> ts[task_id].board,
     title |-> ts[task_id].title,
     description |-> ts[task_id].description,
     status |-> ts[task_id].status,
     priority |-> ts[task_id].priority,
     assignee |-> ts[task_id].assignee,
     reviewer |-> ts[task_id].reviewer,
     due_date |-> ts[task_id].due_date,
     comments_count |-> Cardinality(CommentsOfIn(cs, task_id))]

serialize_task_for_board(task_id) == serialize_task(task_id, tasks, comments)
serialize_task_detail(task_id) == serialize_task(task_id, tasks, comments)

TaskList(S) == [i \in 1..Cardinality(S) |-> serialize_task_detail(SortedSeq(S)[i])]

\* ----------------------------------------------------------------- users
\* RegistrationView.post: a new account with the next id.
Register ==
    /\ Cardinality(users) < MaxUsers
    /\ users' = users \cup {Cardinality(users) + 1}
    /\ last' = Request("register", None, None, None, None, <<>>)
    /\ resp' = Response(HTTP_201_CREATED, {}, Cardinality(users) + 1)
    /\ UNCHANGED <<boards, board_members, tasks, comments, seq>>

\* ---------------------------------------------------------------- boards
\* BoardsCollectionView.get
BoardsList(u) ==
    LET ids == distinct(accessible_boards(u))
    IN  /\ last' = Request("boards_list", u, None, None, None, <<>>)
        /\ resp' = Response(HTTP_200_OK, {},
                [i \in 1..Len(ids) |->
                    BoardListItem(ids[i], boards, board_members, tasks)])
        /\ UNCHANGED db

\* BoardsCollectionView.post
BoardsCreate(u, p) ==
    /\ last' = Request("boards_create", u, None, None, None, p)
    /\ IF BoardCreateErrors(p) # {}
       THEN /\ resp' = BoardValidationError(BoardCreateErrors(p), p)
            /\ UNCHANGED db
       ELSE /\ seq.board < MaxBoards
            /\ LET id == seq.board + 1
                   bs == [b \in DOMAIN boards \cup {id} |->
                            IF b = id THEN [title |-> strip(CharFieldValue(p.title)), owner |-> u]
                            ELSE boards[b]]
                   bm == board_members \cup {<<id, m>> : m \in valid_ids(p.members)}
               IN  /\ boards' = bs
                   /\ board_members' = bm
                   /\ seq' = [seq EXCEPT !.board = id]
                   /\ resp' = Response(HTTP_201_CREATED, {},
                                       <<BoardListItem(id, bs, bm, tasks)>>)
            /\ UNCHANGED <<users, tasks, comments>>

\* BoardDetailView.get
BoardGet(u, board_id) ==
    /\ last' = Request("board_get", u, board_id, None, None, <<>>)
    /\ resp' = IF board_id \notin DOMAIN boards THEN not_found_404
               ELSE IF ensure_board_member(board_id, u) THEN forbid_403
               ELSE Response(HTTP_200_OK, {},
                        [id |-> board_id,
                         title |-> boards[board_id].title,
                         owner_id |-> boards[board_id].owner,
                         members |-> SortedSeq(members(board_id)),
                         tasks |-> [i \in 1..Cardinality(TasksOf(board_id)) |->
                            serialize_task_for_board(SortedSeq(TasksOf(board_id))[i])]])
    /\ UNCHANGED db

\* Variant of members.set that adds the given users and removes none.
members_set_as_add(board_id, ids) ==
    board_members \cup {<<board_id, m>> : m \in ids}

\* board.members.set(users): the membership rows after the explicit members
\* of the board are replaced by the given users.
members_set(board_id, ids) ==
    {r \in board_members : r[1] # board_id} \cup {<<board_id, m>> : m \in ids}

\* BoardDetailView.patch
BoardPatch(u, board_id, p) ==
    /\ last' = Request("board_patch", u, board_id, None, None, p)
    /\ IF board_id \notin DOMAIN boards
       THEN resp' = not_found_404 /\ UNCHANGED db
       ELSE IF ensure_board_member(board_id, u)
       THEN resp' = forbid_403 /\ UNCHANGED db
       ELSE IF BoardUpdateErrors(p) # {}
       THEN resp' = BoardValidationError(BoardUpdateErrors(p), p) /\ UNCHANGED db
       ELSE LET bs == IF "title" \in DOMAIN p
                      THEN [boards EXCEPT ![board_id].title = strip(CharFieldValue(p.title))]
                      ELSE boards
                bm == IF "members" \in DOMAIN p
                      THEN members_set(board_id, valid_ids(p.members))
                      ELSE board_members
            IN  /\ boards' = bs
                /\ board_members' = bm
                /\ resp' = Response(HTTP_200_OK, {},
                            [id |-> board_id,
                             title |-> bs[board_id].title,
                             owner_data |-> bs[board_id].owner,
                             members_data |-> SortedSeq(MembersIn(bm, board_id))])
                /\ UNCHANGED <<users, tasks, comments, seq>>

\* BoardDetailView.delete; the foreign keys of BoardMember, Task and Comment
\* are on_delete=CASCADE.
BoardDelete(u, board_id) ==
    /\ last' = Request("board_delete", u, board_id, None, None, <<>>)
    /\ IF board_id \notin DOMAIN boards
       THEN resp' = not_found_404 /\ UNCHANGED db
       ELSE IF ensure_board_owner(board_id, u)
       THEN resp' = forbid_403 /\ UNCHANGED db
       ELSE /\ boards' = [b \in DOMAIN boards \ {board_id} |-> boards[b]]
            /\ board_members' = {r \in board_members : r[1] # board_id}
            /\ tasks' = [t \in DOMAIN tasks \ cascade_tasks(board_id) |-> tasks[t]]
            /\ comments' = [c \in DOMAIN comments
                                    \ cascade_comments(cascade_tasks(board_id))
                              |-> comments[c]]
            /\ resp' = Response(HTTP_204_NO_CONTENT, {}, <<>>)
            /\ UNCHANGED <<users, seq>>

\* ----------------------------------------------------------------- tasks
\* TaskCreateSerializer: the set of fields with errors.
TaskCreateErrors(p) ==
    (IF "board" \in DOMAIN p THEN {} ELSE {"board"})
    \cup (IF "title" \in DOMAIN p /\ CharFieldValid(p.title) THEN {} ELSE {"title"})
    \cup (IF "status" \in DOMAIN p /\ p.status \in StatusChoices THEN {} ELSE {"status"})
    \cup (IF "priority" \in DOMAIN p /\ p.priority \in PriorityChoices
          THEN {} ELSE {"priority"})

\* TaskUpdateSerializer(partial=True): the set of fields with errors.
TaskUpdateErrors(p) ==
    (IF "title" \in DOMAIN p /\ ~CharFieldValid(p.title) THEN {"title"} ELSE {})
    \cup (IF "status" \in DOMAIN p /\ p.status \notin StatusChoices
          THEN {"status"} ELSE {})
    \cup (IF "priority" \in DOMAIN p /\ p.priority \notin PriorityChoices
          THEN {"priority"} ELSE {})

\* validated_data.get(key): None when the key is absent.
Get(p, key) == IF key \in DOMAIN p THEN p[key] ELSE None

\* Variant of resolve_user without the membership check.
resolve_user_unchecked(board_id, optional_id) ==
    IF optional_id = None THEN [out |-> "ok", user |-> None]
    ELSE IF optional_id \notin users THEN [out |-> "Http404", user |-> None]
    ELSE [out |-> "ok", user |-> optional_id]

\* resolve_user of TasksCollectionView.post and TaskDetailView.patch: the
\* user, or the exception raised (Http404 for an unknown id, ValueError for
\* a user who is neither owner nor member of the board).
resolve_user(board_id, optional_id) ==
    IF optional_id = None THEN [out |-> "ok", user |-> None]
    ELSE IF optional_id \notin users THEN [out |-> "Http404", user |-> None]
    ELSE IF ~is_board_member_or_owner(board_id, optional_id)
         THEN [out |-> "ValueError", user |-> None]
    ELSE [out |-> "ok", user |-> optional_id]

\* Variant in which only the exception of the assignee is noticed.
ResolveOutcome_assignee_only(a, r) == a.out

\* The response to the first exception of the two resolutions, in the
\* order the view makes them; "ok" when neither raises.
ResolveOutcome(a, r) == IF a.out # "ok" THEN a.out ELSE r.out

\* except ValueError as e: Response({"detail": str(e)}, 400)
value_error_400 == Response(HTTP_400_BAD_REQUEST, {"detail"}, <<>>)

\* TasksCollectionView.get
TasksList(u) ==
    LET board_ids == Range(accessible_boards(u))
    IN  /\ last' = Request("tasks_list", u, None, None, None, <<>>)
        /\ resp' = Response(HTTP_200_OK, {},
                        TaskList({t \in DOMAIN tasks : tasks[t].board \in board_ids}))
        /\ UNCHANGED db

\* TasksCollectionView.post
TasksCreate(u, p) ==
    /\ last' = Request("tasks_create", u, None, None, None, p)
    /\ IF TaskCreateErrors(p) # {}
       THEN resp' = ValidationError(TaskCreateErrors(p)) /\ UNCHANGED db
       ELSE IF p.board \notin DOMAIN boards
       THEN resp' = not_found_404 /\ UNCHANGED db
       ELSE IF ensure_board_member(p.board, u)
       THEN resp' = forbid_403 /\ UNCHANGED db
       ELSE LET assignee == resolve_user(p.board, Get(p, "assignee_id"))
                reviewer == resolve_user(p.board, Get(p, "reviewer_id"))
                outcome == ResolveOutcome(assignee, reviewer)
            IN  IF outcome = "Http404"
                THEN resp' = not_found_404 /\ UNCHANGED db
                ELSE IF outcome = "ValueError"
                THEN resp' = value_error_400 /\ UNCHANGED db
                ELSE /\ seq.task < MaxTasks
                     /\ LET id == seq.task + 1
                            row == [board |-> p.board,
                                    title |-> strip(CharFieldValue(p.title)),
                                    description |->
                                        IF "description" \in DOMAIN p
                                        THEN strip(CharFieldValue(p.description))
                                        ELSE <<>>,
                                    status |-> p.status,
                                    priority |-> p.priority,
                                    assignee |-> assignee.user,
                                    reviewer |-> reviewer.user,
                                    due_date |-> Get(p, "due_date")]
                            ts == [t \in DOMAIN tasks \cup {id} |->
                                    IF t = id THEN row ELSE tasks[t]]
                        IN  /\ tasks' = ts
                            /\ seq' = [seq EXCEPT !.task = id]
                            /\ resp' = Response(HTTP_201_CREATED, {},
                                                serialize_task(id, ts, comments))
                     /\ UNCHANGED <<users, boards, board_members, comments>>

\* Variant in which an absent assignee_id or reviewer_id clears the relation.
partial_people_reset(p, key, old, new) ==
    IF key \in DOMAIN p THEN new
    ELSE IF key \in {"assignee_id", "reviewer_id"} THEN [out |-> "ok", user |-> None]
    ELSE old

\* if key in ser.validated_data: the new value of a field when the payload
\* carries the key, the stored one otherwise.
partial(p, key, old, new) == IF key \in DOMAIN p THEN new ELSE old

\* TaskDetailView.patch
TaskPatch(u, task_id, p) ==
    /\ last' = Request("task_patch", u, None, task_id, None, p)
    /\ IF task_id \notin DOMAIN tasks
       THEN resp' = not_found_404 /\ UNCHANGED db
       ELSE IF ensure_board_member(tasks[task_id].board, u)
       THEN resp' = forbid_403 /\ UNCHANGED db
       ELSE IF TaskUpdateErrors(p) # {}
       THEN resp' = ValidationError(TaskUpdateErrors(p)) /\ UNCHANGED db
       ELSE LET old == tasks[task_id]
                assignee == partial(p, "assignee_id",
                                    [out |-> "ok", user |-> old.assignee],
                                    resolve_user(old.board, p.assignee_id))
                reviewer == partial(p, "reviewer_id",
                                    [out |-> "ok", user |-> old.reviewer],
                                    resolve_user(old.board, p.reviewer_id))
                outcome == ResolveOutcome(assignee, reviewer)
                row == [board |-> old.board,
                        title |-> partial(p, "title", old.title,
                                          strip(CharFieldValue(p.title))),
                        description |-> partial(p, "description", old.description,
                                                CharFieldValue(p.description)),
                        status |-> partial(p, "status", old.status, p.status),
                        priority |-> partial(p, "priority", old.priority, p.priority),
                        assignee |-> assignee.user,
                        reviewer |-> reviewer.user,
                        due_date |-> partial(p, "due_date", old.due_date, p.due_date)]
                ts == [tasks EXCEPT ![task_id] = row]
            IN  IF outcome = "Http404"
                THEN resp' = not_found_404 /\ UNCHANGED db
                ELSE IF outcome = "ValueError"
                THEN resp' = value_error_400 /\ UNCHANGED db
                ELSE /\ tasks' = ts
                     /\ resp' = Response(HTTP_200_OK, {},
                                         serialize_task(task_id, ts, comments))
                     /\ UNCHANGED <<users, boards, board_members, comments, seq>>

\* TaskDetailView has no get method: APIView answers 405 to an
\* authenticated GET of tasks/<task_id>/, whatever the task id.
TaskGet(u, task_id) ==
    /\ last' = Request("task_get", u, None, task_id, None, <<>>)
    /\ resp' = Response(HTTP_405_METHOD_NOT_ALLOWED, {"detail"}, <<>>)
    /\ UNCHANGED db

\* Variant of allowed that lets every member of the board delete.
allowed_as_member(task_id, u) == is_board_member_or_owner(tasks[task_id].board, u)

\* allowed, in TaskDetailView.delete: Task has no created_by field, so only
\* the owner of the board is.
allowed(task_id, u) == boards[tasks[task_id].board].owner = u

\* TaskDetailView.delete.
TaskDelete(u, task_id) ==
    /\ last' = Request("task_delete", u, None, task_id, None, <<>>)
    /\ IF task_id \notin DOMAIN tasks
       THEN resp' = not_found_404 /\ UNCHANGED db
       ELSE IF ~allowed(task_id, u)
       THEN resp' = forbid_403 /\ UNCHANGED db
       ELSE /\ tasks' = [t \in DOMAIN tasks \ {task_id} |-> tasks[t]]
            /\ comments' = [c \in DOMAIN comments \ cascade_comments({task_id})
                              |-> comments[c]]
            /\ resp' = Response(HTTP_204_NO_CONTENT, {}, <<>>)
            /\ UNCHANGED <<users, boards, board_members, seq>>

\* TasksAssignedToMeView.get
TasksAssignedToMe(u) ==
    /\ last' = Request("tasks_assigned", u, None, None, None, <<>>)
    /\ resp' = Response(HTTP_200_OK, {},
                        TaskList({t \in DOMAIN tasks : tasks[t].assignee = u}))
    /\ UNCHANGED db

\* TasksReviewingView.get
TasksReviewing(u) ==
    /\ last' = Request("tasks_reviewing", u, None, None, None, <<>>)
    /\ resp' = Response(HTTP_200_OK, {},
                        TaskList({t \in DOMAIN tasks : tasks[t].reviewer = u}))
    /\ UNCHANGED db

\* urlpatterns has no dashboard/ route: the URL resolver answers 404.
Dashboard(u) ==
    /\ last' = Request("dashboard", u, None, None, None, <<>>)
    /\ resp' = not_found_404
    /\ UNCHANGED db

\* -------------------------------------------------------------- comments
\* CommentSerializer
serialize_comment(comment_id, cs) ==
    [id |-> comment_id, author |-> cs[comment_id].author,
     content |-> cs[comment_id].content]

\* CommentCreateSerializer: the set of fields with errors.
CommentCreateErrors(p) ==
    IF "content" \in DOMAIN p /\ CharFieldValid(p.content) THEN {} ELSE {"content"}

\* CommentsCollectionView.get
CommentsList(u, task_id) ==
    /\ last' = Request("comments_list", u, None, task_id, None, <<>>)
    /\ resp' = IF task_id \notin DOMAIN tasks THEN not_found_404
               ELSE IF ensure_board_member(tasks[task_id].board, u) THEN forbid_403
               ELSE Response(HTTP_200_OK, {},
                        [i \in 1..Cardinality(CommentsOf(task_id)) |->
                            serialize_comment(SortedSeq(CommentsOf(task_id))[i], comments)])
    /\ UNCHANGED db

\* Variant of Comment.objects.create that takes author and task from the
\* payload when it carries them.
new_comment_from_payload(u, task_id, p) ==
    [task |-> IF "task" \in DOMAIN p THEN p.task ELSE task_id,
     author |-> IF "author" \in DOMAIN p THEN p.author ELSE u,
     content |-> CharFieldValue(p.content)]

\* Comment.objects.create(task=task, author=request.user, content=...)
new_comment(u, task_id, p) ==
    [task |-> task_id, author |-> u, content |-> CharFieldValue(p.content)]

\* CommentsCollectionView.post
CommentsCreate(u, task_id, p) ==
    /\ last' = Request("comments_create", u, None, task_id, None, p)
    /\ IF task_id \notin DOMAIN tasks
       THEN resp' = not_found_404 /\ UNCHANGED db
       ELSE IF ensure_board_member(tasks[task_id].board, u)
       THEN resp' = forbid_403 /\ UNCHANGED db
       ELSE IF CommentCreateErrors(p) # {}
       THEN resp' = ValidationError(CommentCreateErrors(p)) /\ UNCHANGED db
       ELSE /\ seq.comment < MaxComments
            /\ LET id == seq.comment + 1
                   cs == [c \in DOMAIN comments \cup {id} |->
                            IF c = id THEN new_comment(u, task_id, p)
                            ELSE comments[c]]
               IN  /\ comments' = cs
                   /\ seq' = [seq EXCEPT !.comment = id]
                   /\ resp' = Response(HTTP_201_CREATED, {}, serialize_comment(id, cs))
            /\ UNCHANGED <<users, boards, board_members, tasks>>

\* Variant of the author check that also lets the owner of the board delete.
not_author_unless_owner(comment_id, u) ==
    /\ comments[comment_id].author # u
    /\ boards[tasks[comments[comment_id].task].board].owner # u

\* comment.author_id != request.user.id
not_author(comment_id, u) == comments[comment_id].author # u

\* Variant of the comment lookup that ignores the task of the URL.
comment_found_any_task(task_id, comment_id) == comment_id \in DOMAIN comments

\* get_object_or_404(Comment, id=comment_id, task=task): TRUE when found.
comment_found(task_id, comment_id) == comment_id \in CommentsOf(task_id)

\* CommentDeleteView.delete
CommentDelete(u, task_id, comment_id) ==
    /\ last' = Request("comment_delete", u, None, task_id, comment_id, <<>>)
    /\ IF task_id \notin DOMAIN tasks
       THEN resp' = not_found_404 /\ UNCHANGED db
       ELSE IF ensure_board_member(tasks[task_id].board, u)
       THEN resp' = forbid_403 /\ UNCHANGED db
       ELSE IF ~comment_found(task_id, comment_id)
       THEN resp' = not_found_404 /\ UNCHANGED db
       ELSE IF not_author(comment_id, u)
       THEN resp' = forbid_403 /\ UNCHANGED db
       ELSE /\ comments' = [c \in DOMAIN comments \ {comment_id} |-> comments[c]]
            /\ resp' = Response(HTTP_204_NO_CONTENT, {}, <<>>)
            /\ UNCHANGED <<users, boards, board_members, tasks, seq>>

\* ------------------------------------------------------------- the system
\* A JSON object with the given keys present.
Payload(keys, values) == [k \in keys |-> values[k]]

UserIds == 1..MaxUsers
BoardIds == 1..MaxBoards
TaskIds == 1..MaxTasks
CommentIds == 1..MaxComments

\* Lists of user ids of length at most MaxMembersLen (repeats included).
MemberLists == UNION {[1..n -> UserIds] : n \in 0..MaxMembersLen}

\* Titles: two characters, three characters between blanks, blank, and 64
\* characters.
TitleInputs == {<<"H", "i">>, <<" ", "D", "e", "v", " ">>, <<" ">>, Rep(64)}

ContentInputs == {<<"o", "k">>, <<" ">>}

\* No guest account, nothing running, no lock held.
Quiet ==
    /\ guest = <<>>
    /\ procs = <<>>
    /\ lock = [shared |-> {}, reserved |-> None]

Init ==
    /\ users = {}
    /\ boards = <<>>
    /\ board_members = {}
    /\ tasks = <<>>
    /\ comments = <<>>
    /\ seq = [board |-> 0, task |-> 0, comment |-> 0]
    /\ last = Request("none", None, None, None, None, <<>>)
    /\ resp = Response(0, {}, <<>>)
    /\ pre = Rows
    /\ Quiet

BoardPayloads ==
    {Payload(ks, [title |-> t, members |-> m]) :
        ks \in SUBSET {"title", "members"}, t \in TitleInputs, m \in MemberLists}

\* Assignee and reviewer of a payload: one of them, or both naming users.
PeoplePayloads(nullable) ==
    {Payload(ks, [assignee_id |-> a, reviewer_id |-> a]) :
        ks \in {{}, {"assignee_id"}, {"reviewer_id"}}, a \in nullable \cup UserIds}
    \cup {[assignee_id |-> a, reviewer_id |-> r] : a \in UserIds, r \in UserIds}

Merge(p, q) == [k \in DOMAIN p \cup DOMAIN q |-> IF k \in DOMAIN p THEN p[k] ELSE q[k]]

\* The payloads of older clients: column for status, assignee and reviewer
\* for assignee_id and reviewer_id.
LegacyCreatePayloads ==
    {[board |-> b, title |-> <<"T">>, priority |-> "high", column |-> "doing",
      assignee |-> m] : b \in BoardIds, m \in UserIds}

LegacyPatchPayloads == {[reviewer |-> m, assignee |-> m] : m \in UserIds}

TaskCreatePayloads ==
    {Merge([board |-> b, title |-> <<"T">>, status |-> "to-do", priority |-> "high"], q) :
        b \in BoardIds, q \in PeoplePayloads({})}
    \cup {[board |-> b, title |-> <<"T">>, priority |-> "high"] : b \in BoardIds}
    \cup LegacyCreatePayloads

TaskPatchPayloads == PeoplePayloads({None}) \cup LegacyPatchPayloads

\* A comment payload with or without content, and one that also names an
\* author and a task.
CommentPayloads ==
    {Payload(ks, [content |-> c]) : ks \in SUBSET {"content"}, c \in ContentInputs}
    \cup {[content |-> <<"o", "k">>, author |-> a, task |-> MaxTasks + 1] : a \in UserIds}

\* The API is request-in/response-out: the client holds one exchange at a
\* time, and takes the response before it sends the next request.
Idle == last.op = "none"

\* A request is taken up: the rows it finds are remembered.
Begin == Idle /\ pre' = Rows /\ UNCHANGED conc

Deliver ==
    /\ ~Idle
    /\ last' = Request("none", None, None, None, None, <<>>)
    /\ resp' = Response(0, {}, <<>>)
    /\ pre' = Rows
    /\ UNCHANGED db
    /\ UNCHANGED conc

Next ==
    \/ Deliver
    \/ Begin /\ Register
    \/ \E u \in users : Begin /\ BoardsList(u)
    \/ \E u \in users, p \in BoardPayloads : Begin /\ BoardsCreate(u, p)
    \/ \E u \in users, b \in BoardIds : Begin /\ BoardGet(u, b)
    \/ \E u \in users, b \in BoardIds, p \in BoardPayloads : Begin /\ BoardPatch(u, b, p)
    \/ \E u \in users, b \in BoardIds : Begin /\ BoardDelete(u, b)
    \/ \E u \in users : Begin /\ TasksList(u)
    \/ \E u \in users, p \in TaskCreatePayloads : Begin /\ TasksCreate(u, p)
    \/ \E u \in users, t \in TaskIds, p \in TaskPatchPayloads : Begin /\ TaskPatch(u, t, p)
    \/ \E u \in users, t \in TaskIds : Begin /\ TaskDelete(u, t)
    \/ \E u \in users : Begin /\ TasksAssignedToMe(u)
    \/ \E u \in users : Begin /\ TasksReviewing(u)
    \/ \E u \in users, t \in TaskIds : Begin /\ CommentsList(u, t)
    \/ \E u \in users, t \in TaskIds, p \in CommentPayloads : Begin /\ CommentsCreate(u, t, p)
    \/ \E u \in users, t \in TaskIds, c \in CommentIds : Begin /\ CommentDelete(u, t, c)
    \/ \E u \in users, t \in TaskIds : Begin /\ TaskGet(u, t)
    \/ \E u \in users : Begin /\ Dashboard(u)

Spec == Init /\ [][Next]_vars

\* ------------------------------------------------------ a populated store
\* The store after WideUsers registrations and the creates of WideBoards
\* boards, WideTasks tasks and WideComments comments, so that a delete leaves
\* rows of other boards and tasks behind.
WideUsers == 2
WideBoards == 2
WideTasks == 2
WideComments == 2

\* A task as TasksCollectionView.post stores it, without assignee or reviewer.
PlainTask(board_id) ==
    [board |-> board_id, title |-> <<"T">>, description |-> <<>>,
     status |-> "to-do", priority |-> "high", assignee |-> None,
     reviewer |-> None, due_date |-> None]

\* Every board has any owner and any explicit members; the first task is on
\* the first board and the first comment on the first task, the others on
\* any; a comment is written by the owner of the board of its task.
InitWide ==
    /\ users = 1..WideUsers
    /\ boards \in [1..WideBoards -> [title : {<<"H", "i">>}, owner : 1..WideUsers]]
    /\ board_members \in SUBSET ((1..WideBoards) \X (1..WideUsers))
    /\ tasks \in {ts \in [1..WideTasks -> {PlainTask(b) : b \in 1..WideBoards}] :
                      ts[1].board = 1}
    /\ comments \in {cs \in [1..WideComments ->
                                [task : 1..WideTasks, author : 1..WideUsers,
                                 content : {<<"o", "k">>}]] :
                        /\ cs[1].task = 1
                        /\ \A c \in DOMAIN cs :
                              cs[c].author = boards[tasks[cs[c].task].board].owner}
    /\ seq = [board |-> WideBoards, task |-> WideTasks, comment |-> WideComments]
    /\ last = Request("none", None, None, None, None, <<>>)
    /\ resp = Response(0, {}, <<>>)
    /\ pre = Rows
    /\ Quiet

\* A title; a members list of one user, of one user twice, and of two
\* unknown ids in descending order.
WideBoardPayloads ==
    {[title |-> <<"H", "i">>]}
    \cup {[members |-> <<m>>] : m \in 1..WideUsers}
    \cup {[members |-> <<m, m>>] : m \in 1..WideUsers}
    \cup {[members |-> <<WideUsers + 2, WideUsers + 1>>]}

WideTaskCreatePayloads ==
    {[board |-> b, title |-> <<"T">>, priority |-> "high"] : b \in 1..WideBoards}

WideTaskPatchPayloads == {[status |-> "done"]}

NextWide ==
    \/ Deliver
    \/ \E u \in users : Begin /\ BoardsList(u)
    \/ \E u \in users, p \in WideBoardPayloads : Begin /\ BoardsCreate(u, p)
    \/ \E u \in users, b \in 1..WideBoards : Begin /\ BoardGet(u, b)
    \/ \E u \in users, b \in 1..WideBoards, p \in WideBoardPayloads :
            Begin /\ BoardPatch(u, b, p)
    \/ \E u \in users, b \in 1..WideBoards : Begin /\ BoardDelete(u, b)
    \/ \E u \in users : Begin /\ TasksList(u)
    \/ \E u \in users, p \in WideTaskCreatePayloads : Begin /\ TasksCreate(u, p)
    \/ \E u \in users, t \in 1..WideTasks, p \in WideTaskPatchPayloads :
            Begin /\ TaskPatch(u, t, p)
    \/ \E u \in users, t \in 1..WideTasks : Begin /\ TaskDelete(u, t)
    \/ \E u \in users, t \in 1..WideTasks : Begin /\ CommentsList(u, t)
    \/ \E u \in users, t \in 1..WideTasks, p \in CommentPayloads :
            Begin /\ CommentsCreate(u, t, p)
    \/ \E u \in users, t \in 1..WideTasks, c \in 1..WideComments :
            Begin /\ CommentDelete(u, t, c)

SpecWide == InitWide /\ [][NextWide]_vars

\* ------------------------------------------------------ one task, patched
\* A store with one board of user 1, one task on it and one comment on the
\* task, as creates and patches leave it; the task is patched with every
\* combination of fields.
TaskUsers == 3

\* A stored task with every field filled; due dates are day numbers.
FilledTask(assignee, reviewer, due_date) ==
    [board |-> 1, title |-> <<"T">>, description |-> <<"d">>,
     status |-> "to-do", priority |-> "high", assignee |-> assignee,
     reviewer |-> reviewer, due_date |-> due_date]

InitTask ==
    /\ users = 1..TaskUsers
    /\ boards = <<[title |-> <<"H", "i">>, owner |-> 1]>>
    /\ board_members \in {{}, {<<1, 2>>}}
    /\ tasks \in {<<FilledTask(a, r, d)>> : a \in {None, 2, 3}, r \in {None, 3},
                                            d \in {None, 1}}
    /\ comments = <<[task |-> 1, author |-> 1, content |-> <<"o", "k">>]>>
    /\ seq = [board |-> 1, task |-> 1, comment |-> 1]
    /\ last = Request("none", None, None, None, None, <<>>)
    /\ resp = Response(0, {}, <<>>)
    /\ pre = Rows
    /\ Quiet

\* request.data of TaskDetailView.patch: no plain field, one of them, or all
\* five, with assignee_id absent, null, a member or a non-member, and
\* reviewer_id absent, null or a non-member.
TaskFieldPayloads ==
    {Payload(ks, [title |-> <<" ", "N", " ">>, description |-> <<" ", "x">>,
                  status |-> "done", priority |-> "low", due_date |-> 2,
                  assignee_id |-> a, reviewer_id |-> r]) :
        ks \in {fs \cup as \cup rs :
                    fs \in {{}, {"title"}, {"description"}, {"status"}, {"priority"},
                            {"due_date"},
                            {"title", "description", "status", "priority", "due_date"}},
                    as \in SUBSET {"assignee_id"},
                    rs \in SUBSET {"reviewer_id"}},
        a \in {None, 2, 3}, r \in {None, 3}}

NextTask ==
    \/ Deliver
    \/ \E u \in users, t \in DOMAIN tasks, p \in TaskFieldPayloads :
            Begin /\ TaskPatch(u, t, p)

SpecTask == InitTask /\ [][NextTask]_vars

\* ------------------------------------------- concurrent members replaces
\* RaceProcs server processes each serve one board PATCH with a members list
\* on board 1 of a store with RaceUsers users.  board.members.set(users)
\* runs in transaction.atomic on the sqlite3 database of settings.DATABASES:
\* the transaction takes the shared lock with its first read and the
\* reserved lock with its first write, its writes reach the database file at
\* commit, and the commit waits until no other transaction holds the shared
\* lock.  A transaction that asks for the reserved lock while another holds
\* it gets "database is locked" (OperationalError) and is rolled back.
RaceProcs == 2
RaceUsers == 3
RaceBoard == 1

\* A process before its request.
IdleProc == [pc |-> "idle", ids |-> {}, old |-> {}, del |-> {}, ins |-> {}]

InitRace ==
    /\ users = 1..RaceUsers
    /\ boards = <<[title |-> <<"H", "i">>, owner |-> 1]>>
    /\ board_members \in SUBSET ({RaceBoard} \X (2..RaceUsers))
    /\ tasks = <<>>
    /\ comments = <<>>
    /\ seq = [board |-> 1, task |-> 0, comment |-> 0]
    /\ last = Request("none", None, None, None, None, <<>>)
    /\ resp = Response(0, {}, <<>>)
    /\ pre = Rows
    /\ guest = <<>>
    /\ procs = [i \in 1..RaceProcs |-> IdleProc]
    /\ lock = [shared |-> {}, reserved |-> None]

\* Members lists: empty, one user, two users, and an unknown id.
RaceMemberLists ==
    {<<>>, <<2, 3>>, <<RaceUsers + 1>>} \cup {<<m>> : m \in 2..RaceUsers}

\* Variant in which every statement is committed on its own.
atomic_as_autocommit(stored, written) == written

\* with transaction.atomic(): the rows of the database file while the
\* transaction that wrote `written` is open.
atomic(stored, written) == stored

\* The membership rows of the board for a set of users.
through_rows(ids) == {<<RaceBoard, m>> : m \in ids}

\* The rows as the transaction of process i sees them.
own_view(i) == (board_members \ through_rows(procs[i].del)) \cup through_rows(procs[i].ins)

\* The locks after the transaction of process i ended.
released(i) ==
    [shared |-> lock.shared \ {i},
     reserved |-> IF lock.reserved = i THEN None ELSE lock.reserved]

RaceUnchanged == UNCHANGED <<users, boards, tasks, comments, seq, last, resp, pre, guest>>

\* BoardDetailView.patch up to board.members.set: permission check and
\* validation of the payload.
PatchBegin(i, u, p) ==
    /\ procs[i].pc = "idle"
    /\ procs' = [procs EXCEPT ![i] =
                    IF ensure_board_member(RaceBoard, u) \/ BoardUpdateErrors(p) # {}
                    THEN [@ EXCEPT !.pc = "rejected"]
                    ELSE [@ EXCEPT !.pc = "validated", !.ids = valid_ids(p.members)]]
    /\ UNCHANGED <<board_members, lock>>
    /\ RaceUnchanged

\* set(): old_ids = set(self.using(db).values_list(...)), the first
\* statement of the transaction.
SetRead(i) ==
    /\ procs[i].pc = "validated"
    /\ procs' = [procs EXCEPT ![i] = [@ EXCEPT !.pc = "read", !.old = members(RaceBoard)]]
    /\ lock' = [lock EXCEPT !.shared = @ \cup {i}]
    /\ UNCHANGED board_members
    /\ RaceUnchanged

\* A write statement of process i that deletes `del` and inserts `ins`: it
\* needs the reserved lock; without it the transaction is rolled back.
SetWrite(i, pc, del, ins) ==
    IF del = {} /\ ins = {}
    THEN /\ procs' = [procs EXCEPT ![i] = [@ EXCEPT !.pc = pc]]
         /\ UNCHANGED <<board_members, lock>>
    ELSE IF lock.reserved \notin {None, i}
    THEN /\ procs' = [procs EXCEPT ![i] = [@ EXCEPT !.pc = "failed", !.del = {}, !.ins = {}]]
         /\ lock' = released(i)
         /\ UNCHANGED board_members
    ELSE /\ procs' = [procs EXCEPT ![i] =
                        [@ EXCEPT !.pc = pc, !.del = @ \cup del, !.ins = @ \cup ins]]
         /\ lock' = [lock EXCEPT !.reserved = i]
         /\ board_members' =
                atomic(board_members,
                       (board_members \ through_rows(del)) \cup through_rows(ins))

\* set(): self.remove(*old_ids) for the old members that are not wanted.
SetRemove(i) ==
    /\ procs[i].pc = "read"
    /\ SetWrite(i, "removed", procs[i].old \ procs[i].ids, {})
    /\ RaceUnchanged

\* set(): self.add(*new_objs) for the wanted users that were not members.
SetAdd(i) ==
    /\ procs[i].pc = "removed"
    /\ SetWrite(i, "added", {}, procs[i].ids \ procs[i].old)
    /\ RaceUnchanged

\* The end of the atomic block: the writes reach the database file once no
\* other transaction holds the shared lock.
SetCommit(i) ==
    /\ procs[i].pc = "added"
    /\ lock.reserved = i => lock.shared \subseteq {i}
    /\ board_members' = own_view(i)
    /\ procs' = [procs EXCEPT ![i] = [@ EXCEPT !.pc = "done", !.del = {}, !.ins = {}]]
    /\ lock' = released(i)
    /\ RaceUnchanged

\* The process fails inside the atomic block (an exception, a lock wait that
\* times out, the end of the process): the transaction is rolled back.
SetFail(i) ==
    /\ procs[i].pc \in {"read", "removed", "added"}
    /\ procs' = [procs EXCEPT ![i] = [@ EXCEPT !.pc = "failed", !.del = {}, !.ins = {}]]
    /\ lock' = released(i)
    /\ UNCHANGED board_members
    /\ RaceUnchanged

NextRace ==
    \/ \E i \in 1..RaceProcs, u \in users, l \in RaceMemberLists :
            PatchBegin(i, u, [members |-> l])
    \/ \E i \in 1..RaceProcs : SetRead(i)
    \/ \E i \in 1..RaceProcs : SetRemove(i)
    \/ \E i \in 1..RaceProcs : SetAdd(i)
    \/ \E i \in 1..RaceProcs : SetCommit(i)
    \/ \E i \in 1..RaceProcs : SetFail(i)

SpecRace == InitRace /\ [][NextRace]_vars

\* ------------------------------------------------- the guest account
\* GuestProcs processes send post_migrate to the receiver _create_guest of
\* AuthAppConfig.ready, each up to GuestRuns times; `guest` holds the User
\* rows with the guest email (GUEST_EMAIL and GUEST_PASSWORD unset).
GuestProcs == 2
GuestRuns == 2

\* The row create_user(email=email, password=pwd, fullname="Guest") stores.
SeededGuest ==
    [email |-> "gast@test.de", fullname |-> "Guest", password |-> "guest123",
     is_active |-> TRUE]

\* A guest row that was there before, renamed and deactivated since.
ExistingGuest ==
    [email |-> "gast@test.de", fullname |-> "Gast", password |-> "changed",
     is_active |-> FALSE]

InitGuest ==
    /\ users = {}
    /\ boards = <<>>
    /\ board_members = {}
    /\ tasks = <<>>
    /\ comments = <<>>
    /\ seq = [board |-> 0, task |-> 0, comment |-> 0]
    /\ last = Request("none", None, None, None, None, <<>>)
    /\ resp = Response(0, {}, <<>>)
    /\ pre = Rows
    /\ guest \in {<<>>, <<ExistingGuest>>}
    /\ procs = [i \in 1..GuestProcs |->
                    [pc |-> "idle", seen |-> FALSE, out |-> "none", runs |-> 0]]
    /\ lock = [shared |-> {}, reserved |-> None]

GuestUnchanged ==
    UNCHANGED <<users, boards, board_members, tasks, comments, seq, last, resp, pre, lock>>

\* User.objects.filter(email=email).exists()
guest_exists == \E id \in DOMAIN guest : guest[id].email = SeededGuest.email

\* Variant of the receiver that lets the exception of ensure_guest_user out.
create_guest_reraising(raised) == IF raised = "none" THEN "ok" ELSE "error"

\* _create_guest: try: ensure_guest_user() except Exception: pass.
create_guest(raised) == "ok"

\* post_migrate calls the receiver.
GuestCall(i) ==
    /\ procs[i].pc = "idle"
    /\ procs[i].runs < GuestRuns
    /\ procs' = [procs EXCEPT ![i] = [@ EXCEPT !.pc = "called", !.out = "none"]]
    /\ UNCHANGED guest
    /\ GuestUnchanged

\* ensure_guest_user: the query for the guest email.
GuestCheck(i) ==
    /\ procs[i].pc = "called"
    /\ procs' = [procs EXCEPT ![i] = [@ EXCEPT !.pc = "checked", !.seen = guest_exists]]
    /\ UNCHANGED guest
    /\ GuestUnchanged

\* ensure_guest_user after the query: nothing when the guest was seen;
\* otherwise create_user, whose INSERT raises IntegrityError (email is
\* unique) when the row is there by now.  IntegrityError is not among the
\* exceptions ensure_guest_user catches; the receiver gets it.
GuestCreate(i) ==
    /\ procs[i].pc = "checked"
    /\ LET insert == ~procs[i].seen /\ ~guest_exists
           raised == IF ~procs[i].seen /\ guest_exists THEN "IntegrityError" ELSE "none"
       IN  /\ guest' = IF insert THEN Append(guest, SeededGuest) ELSE guest
           /\ procs' = [procs EXCEPT ![i] =
                           [@ EXCEPT !.pc = "idle", !.out = create_guest(raised),
                                     !.runs = @ + 1]]
    /\ GuestUnchanged

NextGuest ==
    \/ \E i \in 1..GuestProcs : GuestCall(i)
    \/ \E i \in 1..GuestProcs : GuestCheck(i)
    \/ \E i \in 1..GuestProcs : GuestCreate(i)

SpecGuest == InitGuest /\ [][NextGuest]_vars

\* ------------------------------------------------------------ properties
\* In the rows s: the effective member set of board b, its owner and its
\* explicit members.
EffectiveMembers(s, b) ==
    {s.boards[b].owner} \cup {u \in s.users : <<b, u>> \in s.board_members}

\* In the rows s, u has no relation to the existing board b.
Stranger(s, u, b) == b \in DOMAIN s.boards /\ u \notin EffectiveMembers(s, b)

\* In the rows s, u is an explicit member of the existing board b and not
\* its owner.
PlainMember(s, u, b) ==
    b \in DOMAIN s.boards /\ s.boards[b].owner # u /\ <<b, u>> \in s.board_members

\* In the rows s, u owns the existing board b.
Owner(s, u, b) == b \in DOMAIN s.boards /\ s.boards[b].owner = u

\* The board a request addresses in the rows s, directly or through a task
\* (None when the board or the task does not exist).
BoardOf(s, req) ==
    IF req.op \in {"board_get", "board_patch", "board_delete"}
    THEN (IF req.board \in DOMAIN s.boards THEN req.board ELSE None)
    ELSE IF req.op = "tasks_create"
    THEN (IF "board" \in DOMAIN req.payload /\ req.payload.board \in DOMAIN s.boards
          THEN req.payload.board ELSE None)
    ELSE IF req.op \in {"task_patch", "task_delete", "comments_list",
                        "comments_create", "comment_delete"}
    THEN (IF req.task \in DOMAIN s.tasks THEN s.tasks[req.task].board ELSE None)
    ELSE None

\* C1: a user who is neither owner nor member of an existing board gets
\* NotFound (404) when fetching that board by id.
C1_StrangerGetsNotFound ==
    (last.op = "board_get" /\ Stranger(pre, last.user, last.board))
        => resp.status = HTTP_404_NOT_FOUND

\* C2: every operation that addresses a board, or a task or comment below
\* it, by a user who cannot view that board answers as for a missing id:
\* NotFound, never Forbidden (a task create with an invalid payload is
\* rejected before the board is looked up).
C2_ExistenceHiding ==
    (/\ last.op \in {"board_patch", "board_delete", "tasks_create", "task_patch",
                     "task_delete", "comments_list", "comments_create",
                     "comment_delete"}
     /\ BoardOf(pre, last) # None
     /\ Stranger(pre, last.user, BoardOf(pre, last)))
        => /\ resp.status # HTTP_403_FORBIDDEN
           /\ \/ resp.status = HTTP_404_NOT_FOUND
              \/ last.op = "tasks_create" /\ resp.status = HTTP_400_BAD_REQUEST

\* C3: no read returns a board, task or comment of a board of which the
\* reader is, at the time of the read, neither owner nor member.
C3_ReadsShowOnlyVisibleBoards ==
    /\ last.op = "boards_list"
        => \A i \in DOMAIN resp.data : ~Stranger(pre, last.user, resp.data[i].id)
    /\ (last.op = "board_get" /\ resp.status = HTTP_200_OK)
        => ~Stranger(pre, last.user, last.board)
    /\ last.op \in {"tasks_list", "tasks_assigned", "tasks_reviewing"}
        => \A i \in DOMAIN resp.data : ~Stranger(pre, last.user, resp.data[i].board)
    /\ (last.op = "comments_list" /\ resp.status = HTTP_200_OK)
        => ~Stranger(pre, last.user, pre.tasks[last.task].board)

\* C4: deleting a board is for its owner only: a member who is not the owner
\* gets Forbidden and the board, its memberships, its tasks and their
\* comments (every stored row) are unchanged; the owner's delete succeeds
\* and removes the board.
C4_BoardDeleteOwnerOnly ==
    last.op = "board_delete"
        => /\ PlainMember(pre, last.user, last.board)
                => resp.status = HTTP_403_FORBIDDEN /\ Rows = pre
           /\ Owner(pre, last.user, last.board)
                => /\ resp.status = HTTP_204_NO_CONTENT
                   /\ last.board \notin DOMAIN boards

\* A member is refused the delete of a board that has a task and a comment.
C4_Witness ==
    /\ last.op = "board_delete"
    /\ PlainMember(pre, last.user, last.board)
    /\ resp.status = HTTP_403_FORBIDDEN
    /\ \E t \in TasksOf(last.board) : CommentsOf(t) # {}

\* A payload the board update accepts: a title that is not blank, a members
\* list of existing user ids.
ValidBoardUpdate(s, p) ==
    /\ "title" \in DOMAIN p => strip(p.title) # <<>>
    /\ "members" \in DOMAIN p => Range(p.members) \subseteq s.users

C7_MemberCountCountsOwnerOnce ==
    (\/ last.op = "boards_list"
     \/ last.op = "boards_create" /\ resp.status = HTTP_201_CREATED)
        => \A i \in DOMAIN resp.data :
              resp.data[i].member_count =
                Cardinality(EffectiveMembers(Rows, resp.data[i].id))

\* C8: on board create and board update a title whose trimmed length is at
\* most 2 or at least 64 is rejected with a validation error on the title
\* field and nothing stored changes; lengths 3 to 63 pass the title check.
C8_TitleLengthValidated ==
    (/\ \/ last.op = "boards_create"
        \/ /\ last.op = "board_patch"
           /\ last.board \in DOMAIN pre.boards
           /\ ~Stranger(pre, last.user, last.board)
     /\ "title" \in DOMAIN last.payload)
        => LET n == Len(strip(last.payload.title))
           IN  IF n <= 2 \/ n >= 64
               THEN /\ resp.status = HTTP_400_BAD_REQUEST
                    /\ "title" \in resp.keys
                    /\ Rows = pre
               ELSE "title" \notin resp.keys

\* C9: the owner of a board is in its effective member set and passes every
\* owner-or-member check on it, whatever the explicit members are: the
\* owner's view answers 200, the owner's delete 204, the owner's patch 200
\* when the payload is valid, the owner lists the comments of its tasks and
\* deletes its tasks, and no request of the owner on the board or below it
\* is refused as Forbidden by the board check (only the author check of
\* comment delete can refuse the owner).
C9_OwnerAlwaysMember ==
    /\ \A b \in DOMAIN boards : is_board_member_or_owner(b, boards[b].owner)
    /\ (BoardOf(pre, last) # None /\ Owner(pre, last.user, BoardOf(pre, last)))
        => /\ resp.status = HTTP_403_FORBIDDEN
                => /\ last.op = "comment_delete"
                   /\ last.comment \in DOMAIN pre.comments
                   /\ pre.comments[last.comment].author # last.user
           /\ last.op = "board_get" => resp.status = HTTP_200_OK
           /\ last.op = "board_delete" => resp.status = HTTP_204_NO_CONTENT
           /\ (last.op = "board_patch" /\ ValidBoardUpdate(pre, last.payload))
                => resp.status = HTTP_200_OK
           /\ last.op = "comments_list" => resp.status = HTTP_200_OK
           /\ last.op = "task_delete" => resp.status = HTTP_204_NO_CONTENT

\* A member replaces the members by a list without the owner.
C9_Witness ==
    /\ last.op = "board_patch"
    /\ PlainMember(pre, last.user, last.board)
    /\ resp.status = HTTP_200_OK
    /\ "members" \in DOMAIN last.payload
    /\ boards[last.board].owner \notin Range(last.payload.members)
    /\ boards[last.board].owner \notin members(last.board)

\* C10: a task create whose assignee_id (or reviewer_id) names a user outside
\* the effective member set of the board fails with 400, the error body is
\* keyed by the offending field, and no task is stored.
C10_NonMemberAssigneeFieldError ==
    (/\ last.op = "tasks_create"
     /\ TaskCreateErrors(last.payload) = {}
     /\ BoardOf(pre, last) # None
     /\ ~Stranger(pre, last.user, BoardOf(pre, last)))
        => LET p == last.payload
               offending == {k \in {"assignee_id", "reviewer_id"} \cap DOMAIN p :
                                p[k] \in pre.users /\ Stranger(pre, p[k], p.board)}
               unknown == {k \in {"assignee_id", "reviewer_id"} \cap DOMAIN p :
                                p[k] # None /\ p[k] \notin pre.users}
           IN  (offending # {} /\ unknown = {})
                => /\ resp.status = HTTP_400_BAD_REQUEST
                   /\ resp.keys # {}
                   /\ resp.keys \subseteq offending
                   /\ tasks = pre.tasks

\* The rows of the table f with the ids in S.
Restrict(f, S) == [x \in S \cap DOMAIN f |-> f[x]]

\* C11: a successful task delete removes the task and, in the same step,
\* every comment attached to it, and leaves the comments of other tasks as
\* they were; no comment is ever stored for a task that does not exist, and
\* a list, create or delete addressed to the comments of a task that does
\* not exist returns NotFound and changes nothing.
C11_TaskDeleteCascades ==
    /\ \A c \in DOMAIN comments : comments[c].task \in DOMAIN tasks
    /\ (last.op = "task_delete" /\ resp.status = HTTP_204_NO_CONTENT)
        => /\ last.task \notin DOMAIN tasks
           /\ \A c \in DOMAIN comments : comments[c].task # last.task
           /\ comments = Restrict(pre.comments,
                    DOMAIN pre.comments \ CommentsOfIn(pre.comments, last.task))
    /\ (/\ last.op \in {"comments_list", "comments_create", "comment_delete"}
        /\ last.task \notin DOMAIN pre.tasks)
        => resp.status = HTTP_404_NOT_FOUND /\ Rows = pre

\* A task with a comment is deleted while another task keeps its comment.
C11_Witness ==
    /\ last.op = "task_delete"
    /\ resp.status = HTTP_204_NO_CONTENT
    /\ CommentsOfIn(pre.comments, last.task) # {}
    /\ \E c \in DOMAIN comments :
          comments[c].task # last.task /\ comments[c] = pre.comments[c]

\* C12: on a comment of the addressed task, a delete by a user who can view
\* the board and is not the author (the board owner included) is Forbidden
\* and changes nothing; a delete by the author who can view the board
\* removes that comment and no other row.
C12_CommentDeleteAuthorOnly ==
    (/\ last.op = "comment_delete"
     /\ last.task \in DOMAIN pre.tasks
     /\ last.comment \in CommentsOfIn(pre.comments, last.task)
     /\ ~Stranger(pre, last.user, pre.tasks[last.task].board))
        => IF pre.comments[last.comment].author = last.user
           THEN /\ resp.status = HTTP_204_NO_CONTENT
                /\ comments = Restrict(pre.comments,
                                       DOMAIN pre.comments \ {last.comment})
                /\ tasks = pre.tasks /\ boards = pre.boards
           ELSE /\ resp.status = HTTP_403_FORBIDDEN
                /\ Rows = pre

\* The owner of the board is refused the delete of a member's comment.
C12_Witness ==
    /\ last.op = "comment_delete"
    /\ last.task \in DOMAIN pre.tasks
    /\ last.comment \in CommentsOfIn(pre.comments, last.task)
    /\ Owner(pre, last.user, pre.tasks[last.task].board)
    /\ pre.comments[last.comment].author # last.user
    /\ resp.status = HTTP_403_FORBIDDEN
    /\ last.comment \in DOMAIN comments

\* The task representations of a response: the tasks of a board detail, the
\* items of a task list, the task of a create or patch response.
TasksShown ==
    IF last.op = "board_get" /\ resp.status = HTTP_200_OK
    THEN Range(resp.data.tasks)
    ELSE IF last.op \in {"tasks_list", "tasks_assigned", "tasks_reviewing"}
    THEN Range(resp.data)
    ELSE IF \/ last.op = "tasks_create" /\ resp.status = HTTP_201_CREATED
            \/ last.op = "task_patch" /\ resp.status = HTTP_200_OK
    THEN {resp.data}
    ELSE {}

\* C13: every task representation returned carries comments_count equal to
\* the number of comments of that task at the time of the read, and a user
\* who can view the board fetches a single task by id (200) and reads this
\* count.
C13_CommentsCountAtRead ==
    /\ \A t \in TasksShown : t.comments_count = Cardinality(CommentsOf(t.id))
    /\ (/\ last.op = "task_get"
        /\ last.task \in DOMAIN pre.tasks
        /\ ~Stranger(pre, last.user, pre.tasks[last.task].board))
        => /\ resp.status = HTTP_200_OK
           /\ resp.data.comments_count = Cardinality(CommentsOf(last.task))

\* The tasks of the boards that u owns or is a member of, in the rows s.
VisibleTasks(s, u) ==
    {t \in DOMAIN s.tasks : ~Stranger(s, u, s.tasks[t].board)}

\* C14: the dashboard of a user answers 200 with tickets_total, by_priority
\* and by_status; tickets_total is the number of tasks on the boards the user
\* owns or is a member of, each task once, and the by_priority counts and
\* the by_status counts each sum to tickets_total.
C14_DashboardTotals ==
    last.op = "dashboard"
        => /\ resp.status = HTTP_200_OK
           /\ resp.data.tickets_total = Cardinality(VisibleTasks(pre, last.user))
           /\ resp.data.by_priority["low"] + resp.data.by_priority["medium"]
                + resp.data.by_priority["high"] = resp.data.tickets_total
           /\ resp.data.by_status["to-do"] + resp.data.by_status["in-progress"]
                + resp.data.by_status["review"] + resp.data.by_status["done"]
                    = resp.data.tickets_total

\* C15: the keys assignee and reviewer of a payload are taken as assignee_id
\* and reviewer_id, and column doing as status in-progress, before
\* validation: a patch {reviewer: m, assignee: m} by the board owner, m in
\* the effective member set, answers 200 and stores assignee m and reviewer
\* m; a create {board, title, priority, column: doing, assignee: m} by a
\* user who can view the board answers 201 with status in-progress and
\* assignee m.
C15_LegacyPayloadNormalized ==
    /\ (/\ last.op = "task_patch"
        /\ last.task \in DOMAIN pre.tasks
        /\ Owner(pre, last.user, pre.tasks[last.task].board)
        /\ last.payload \in LegacyPatchPayloads
        /\ last.payload.assignee \in pre.users
        /\ ~Stranger(pre, last.payload.assignee, pre.tasks[last.task].board))
        => /\ resp.status = HTTP_200_OK
           /\ tasks[last.task].assignee = last.payload.assignee
           /\ tasks[last.task].reviewer = last.payload.reviewer
    /\ (/\ last.op = "tasks_create"
        /\ last.payload \in LegacyCreatePayloads
        /\ last.payload.board \in DOMAIN pre.boards
        /\ ~Stranger(pre, last.user, last.payload.board)
        /\ last.payload.assignee \in pre.users
        /\ ~Stranger(pre, last.payload.assignee, last.payload.board))
        => /\ resp.status = HTTP_201_CREATED
           /\ resp.data.status = "in-progress"
           /\ resp.data.assignee = last.payload.assignee

\* C16: a task create carrying title, board and priority, and no status, by
\* a user who can view the board (owner or explicit member) answers 201, and
\* a task with that title is on that board afterwards.
C16_ViewerCreatesTask ==
    (/\ last.op = "tasks_create"
     /\ DOMAIN last.payload = {"title", "board", "priority"}
     /\ last.payload.board \in DOMAIN pre.boards
     /\ ~Stranger(pre, last.user, last.payload.board))
        => /\ resp.status = HTTP_201_CREATED
           /\ \E t \in DOMAIN tasks :
                /\ tasks[t].board = last.payload.board
                /\ tasks[t].title = strip(last.payload.title)

\* The ids of the items of a list response, and the items are all different.
ListedIds == {resp.data[i].id : i \in DOMAIN resp.data}

EachOnce == \A i, j \in DOMAIN resp.data : resp.data[i].id = resp.data[j].id => i = j

\* C17: the board list of a user holds exactly the boards the user owns or is
\* an explicit member of, each once, and the task list of the user holds
\* exactly the tasks of those boards, each once.
C17_ListsEachVisibleOnce ==
    /\ last.op = "boards_list"
        => /\ resp.status = HTTP_200_OK
           /\ ListedIds = {b \in DOMAIN pre.boards : ~Stranger(pre, last.user, b)}
           /\ EachOnce
    /\ last.op = "tasks_list"
        => /\ resp.status = HTTP_200_OK
           /\ ListedIds = VisibleTasks(pre, last.user)
           /\ EachOnce

\* The owner of a board, who is also one of its two explicit members, lists
\* the boards and sees both boards.
C17_Witness ==
    /\ last.op = "boards_list"
    /\ Len(resp.data) = 2
    /\ \E b \in DOMAIN boards :
          /\ boards[b].owner = last.user
          /\ last.user \in members(b)
          /\ Cardinality(members(b)) = 2

\* C18: a task delete by a member of the board who is not its owner (the
\* assignee of the task included) is Forbidden and changes nothing; the
\* delete by the owner removes the task; no one but the owner removes a task.
C18_TaskDeleteOwnerOnly ==
    (last.op = "task_delete" /\ last.task \in DOMAIN pre.tasks)
        => /\ PlainMember(pre, last.user, pre.tasks[last.task].board)
                => resp.status = HTTP_403_FORBIDDEN /\ Rows = pre
           /\ Owner(pre, last.user, pre.tasks[last.task].board)
                => /\ resp.status = HTTP_204_NO_CONTENT
                   /\ last.task \notin DOMAIN tasks
           /\ tasks # pre.tasks => Owner(pre, last.user, pre.tasks[last.task].board)

\* The assignee of a task with a comment, a member of the board, is refused
\* the delete of the task.
C18_Witness ==
    /\ last.op = "task_delete"
    /\ last.task \in DOMAIN tasks
    /\ PlainMember(pre, last.user, tasks[last.task].board)
    /\ tasks[last.task].assignee = last.user
    /\ CommentsOf(last.task) # {}
    /\ resp.status = HTTP_403_FORBIDDEN

\* C19: in every state each membership row and each task belongs to a stored
\* board and each comment to a stored task; a successful board delete
\* removes the board with its membership rows, its tasks and their
\* comments, and leaves every other board, membership, task and comment
\* as it was.
C19_BoardDeleteCascades ==
    /\ \A r \in board_members : r[1] \in DOMAIN boards
    /\ \A t \in DOMAIN tasks : tasks[t].board \in DOMAIN boards
    /\ \A c \in DOMAIN comments : comments[c].task \in DOMAIN tasks
    /\ (last.op = "board_delete" /\ resp.status = HTTP_204_NO_CONTENT)
        => LET gone == TasksOfIn(pre.tasks, last.board)
           IN  /\ boards = Restrict(pre.boards, DOMAIN pre.boards \ {last.board})
               /\ board_members = {r \in pre.board_members : r[1] # last.board}
               /\ tasks = Restrict(pre.tasks, DOMAIN pre.tasks \ gone)
               /\ comments = Restrict(pre.comments,
                        {c \in DOMAIN pre.comments : pre.comments[c].task \notin gone})

\* A board with a task and a comment is deleted while the other board keeps
\* its task and the comment on it.
C19_Witness ==
    /\ last.op = "board_delete"
    /\ resp.status = HTTP_204_NO_CONTENT
    /\ \E t \in TasksOfIn(pre.tasks, last.board) : CommentsOfIn(pre.comments, t) # {}
    /\ \E t \in DOMAIN tasks : CommentsOf(t) # {}

\* C20: after a successful board PATCH carrying the members list M, a user
\* other than the owner is an explicit member of the board exactly if listed
\* in M; owner, tasks and comments of the board are unchanged, and so is the
\* title when the payload carries none.
C20_MembersReplace ==
    (/\ last.op = "board_patch"
     /\ resp.status = HTTP_200_OK
     /\ "members" \in DOMAIN last.payload)
        => /\ \A u \in UserIds \ {pre.boards[last.board].owner} :
                <<last.board, u>> \in board_members
                    <=> u \in Range(last.payload.members)
           /\ boards[last.board].owner = pre.boards[last.board].owner
           /\ tasks = pre.tasks
           /\ comments = pre.comments
           /\ "title" \notin DOMAIN last.payload => boards = pre.boards

\* One member is replaced by another: the user left out loses membership, the
\* user listed gains it.
C20_Witness ==
    /\ last.op = "board_patch"
    /\ resp.status = HTTP_200_OK
    /\ "members" \in DOMAIN last.payload
    /\ \E u, v \in UserIds \ {boards[last.board].owner} :
          /\ u # v
          /\ <<last.board, u>> \in pre.board_members
          /\ <<last.board, u>> \notin board_members
          /\ <<last.board, v>> \notin pre.board_members
          /\ <<last.board, v>> \in board_members

C24_NoCascadeToTasks ==
    /\ last.op = "board_patch" => tasks = pre.tasks /\ comments = pre.comments
    /\ (last.op = "tasks_create" /\ resp.status = HTTP_201_CREATED)
        => /\ resp.data.assignee # None
                => ~Stranger(pre, resp.data.assignee, resp.data.board)
           /\ resp.data.reviewer # None
                => ~Stranger(pre, resp.data.reviewer, resp.data.board)
    /\ (last.op = "task_patch" /\ resp.status = HTTP_200_OK)
        => /\ ("assignee_id" \in DOMAIN last.payload /\ last.payload.assignee_id # None)
                => /\ tasks[last.task].assignee = last.payload.assignee_id
                   /\ ~Stranger(pre, last.payload.assignee_id, tasks[last.task].board)
           /\ ("reviewer_id" \in DOMAIN last.payload /\ last.payload.reviewer_id # None)
                => /\ tasks[last.task].reviewer = last.payload.reviewer_id
                   /\ ~Stranger(pre, last.payload.reviewer_id, tasks[last.task].board)

\* A members replace removes the assignee of a task from the board: the task
\* keeps the assignee, who is no longer in the effective member set.
C24_Witness ==
    /\ last.op = "board_patch"
    /\ resp.status = HTTP_200_OK
    /\ \E t \in TasksOf(last.board) :
          /\ tasks[t].assignee # None
          /\ PlainMember(pre, tasks[t].assignee, last.board)
          /\ Stranger(Rows, tasks[t].assignee, last.board)

\* C27: a comment created by comment-create has the requesting user as
\* author and the task of the URL as task, whatever author or task the
\* payload names; no request changes the author or the task of a stored
\* comment or the owner of a stored board, and a created board is owned by
\* the user who created it.
C27_AuthorAndOwnerFixed ==
    /\ (last.op = "comments_create" /\ resp.status = HTTP_201_CREATED)
        => LET id == pre.seq.comment + 1
           IN  /\ DOMAIN comments = DOMAIN pre.comments \cup {id}
               /\ id \notin DOMAIN pre.comments
               /\ comments[id].author = last.user
               /\ comments[id].task = last.task
               /\ resp.data.author = last.user
    /\ \A c \in DOMAIN comments \cap DOMAIN pre.comments :
          /\ comments[c].author = pre.comments[c].author
          /\ comments[c].task = pre.comments[c].task
    /\ \A b \in DOMAIN boards \cap DOMAIN pre.boards :
          boards[b].owner = pre.boards[b].owner
    /\ (last.op = "boards_create" /\ resp.status = HTTP_201_CREATED)
        => boards[pre.seq.board + 1].owner = last.user

\* A comment is created with a payload that names another author and another
\* task.
C27_Witness ==
    /\ last.op = "comments_create"
    /\ resp.status = HTTP_201_CREATED
    /\ "author" \in DOMAIN last.payload
    /\ last.payload.author # last.user
    /\ last.payload.task # last.task
    /\ \E c \in DOMAIN comments : comments[c].author = last.user

\* The keys of a task payload that name an unknown user id.
UnknownPeople(s, p) ==
    {k \in {"assignee_id", "reviewer_id"} \cap DOMAIN p :
        p[k] # None /\ p[k] \notin s.users}

\* C28: a board create or update whose members list holds unknown user ids
\* fails with a validation error on members that lists all the unknown ids
\* in ascending order; a task create or patch whose assignee_id or
\* reviewer_id is an unknown user id fails with a 400 validation error that
\* names that field, never NotFound; nothing is created or changed.
C28_UnknownIdsValidationError ==
    /\ (/\ \/ last.op = "boards_create"
           \/ /\ last.op = "board_patch"
              /\ last.board \in DOMAIN pre.boards
              /\ ~Stranger(pre, last.user, last.board)
        /\ "members" \in DOMAIN last.payload
        /\ ~(Range(last.payload.members) \subseteq pre.users))
        => /\ resp.status = HTTP_400_BAD_REQUEST
           /\ "members" \in resp.keys
           /\ resp.data = SortedSeq(Range(last.payload.members) \ pre.users)
           /\ Rows = pre
    /\ (/\ \/ /\ last.op = "tasks_create"
              /\ TaskCreateErrors(last.payload) = {}
           \/ /\ last.op = "task_patch"
              /\ last.task \in DOMAIN pre.tasks
              /\ TaskUpdateErrors(last.payload) = {}
        /\ BoardOf(pre, last) # None
        /\ ~Stranger(pre, last.user, BoardOf(pre, last))
        /\ UnknownPeople(pre, last.payload) # {})
        => /\ resp.status = HTTP_400_BAD_REQUEST
           /\ resp.keys \cap UnknownPeople(pre, last.payload) # {}
           /\ Rows = pre

\* C29: a comment delete addressed to a task the user can view and to a
\* comment that exists on another task answers NotFound and changes
\* nothing, also for the author of the comment; a comment delete by a user
\* who cannot view the board of the task gets the answer of the board
\* check, the same for every comment id, and changes nothing.
C29_CommentDeleteScopedToTask ==
    /\ (/\ last.op = "comment_delete"
        /\ last.task \in DOMAIN pre.tasks
        /\ ~Stranger(pre, last.user, pre.tasks[last.task].board)
        /\ last.comment \in DOMAIN pre.comments
        /\ pre.comments[last.comment].task # last.task)
        => resp = not_found_404 /\ Rows = pre
    /\ (/\ last.op = "comment_delete"
        /\ last.task \in DOMAIN pre.tasks
        /\ Stranger(pre, last.user, pre.tasks[last.task].board))
        => resp = forbid_403 /\ Rows = pre

\* The author addresses the own comment through another task of a board the
\* author can view.
C29_Witness ==
    /\ last.op = "comment_delete"
    /\ last.task \in DOMAIN tasks
    /\ ~Stranger(pre, last.user, tasks[last.task].board)
    /\ last.comment \in DOMAIN comments
    /\ comments[last.comment].task # last.task
    /\ comments[last.comment].author = last.user
    /\ ~Stranger(pre, last.user, tasks[comments[last.comment].task].board)
    /\ resp.status = HTTP_404_NOT_FOUND

\* C30: a board PATCH by a user who can view the board, carrying a members
\* list with an unknown user id, with or without a valid title, is rejected
\* with a validation error on members and changes neither the title nor a
\* membership row; a board create with unknown member ids is rejected and
\* stores no board.
C30_BoardPatchValidatesFirst ==
    /\ (/\ last.op = "board_patch"
        /\ last.board \in DOMAIN pre.boards
        /\ ~Stranger(pre, last.user, last.board)
        /\ "members" \in DOMAIN last.payload
        /\ ~(Range(last.payload.members) \subseteq pre.users))
        => /\ resp.status = HTTP_400_BAD_REQUEST
           /\ "members" \in resp.keys
           /\ boards = pre.boards
           /\ board_members = pre.board_members
    /\ (/\ last.op = "boards_create"
        /\ "members" \in DOMAIN last.payload
        /\ ~(Range(last.payload.members) \subseteq pre.users))
        => /\ resp.status = HTTP_400_BAD_REQUEST
           /\ boards = pre.boards
           /\ seq = pre.seq

\* A valid new title comes with an unknown member id: the title stays.
C30_Witness ==
    /\ last.op = "board_patch"
    /\ resp.status = HTTP_400_BAD_REQUEST
    /\ resp.keys = {"members"}
    /\ "title" \in DOMAIN last.payload
    /\ strip(last.payload.title) # boards[last.board].title
    /\ boards[last.board].title = pre.boards[last.board].title

\* The users a task payload names as assignee or reviewer.
NamedPeople(p) ==
    {p[k] : k \in {"assignee_id", "reviewer_id"} \cap DOMAIN p} \ {None}

\* C25: a task PATCH by a user who can view the board, with valid fields,
\* whose assignee_id or reviewer_id names a registered user who is neither
\* owner nor member of the board of the task, answers 400 and leaves the
\* stored task, and every other row, as it was, whatever title, description,
\* status, priority, due_date and other of assignee and reviewer the payload
\* carries.
C25_TaskPatchAllOrNothing ==
    (/\ last.op = "task_patch"
     /\ last.task \in DOMAIN pre.tasks
     /\ ~Stranger(pre, last.user, pre.tasks[last.task].board)
     /\ TaskUpdateErrors(last.payload) = {}
     /\ NamedPeople(last.payload) \subseteq pre.users
     /\ \E x \in NamedPeople(last.payload) :
            Stranger(pre, x, pre.tasks[last.task].board))
        => /\ resp.status = HTTP_400_BAD_REQUEST
           /\ Rows = pre

\* All five plain fields and a member as assignee come with a non-member as
\* reviewer: nothing of it is stored.
C25_Witness ==
    /\ last.op = "task_patch"
    /\ resp.status = HTTP_400_BAD_REQUEST
    /\ {"title", "description", "status", "priority", "due_date", "assignee_id",
        "reviewer_id"} \subseteq DOMAIN last.payload
    /\ ~Stranger(pre, last.payload.assignee_id, tasks[last.task].board)
    /\ last.payload.assignee_id # tasks[last.task].assignee
    /\ Stranger(pre, last.payload.reviewer_id, tasks[last.task].board)
    /\ tasks[last.task].status # last.payload.status
    /\ tasks = pre.tasks

\* C26: after a successful task PATCH every field the payload carries has
\* the value of the payload (title and description trimmed, null clearing
\* assignee or reviewer), every field the payload does not carry has the
\* value stored before, and the board of the task, the comments and every
\* other row are as before.
C26_TaskPatchPartial ==
    (last.op = "task_patch" /\ resp.status = HTTP_200_OK)
        => LET p == last.payload
               old == pre.tasks[last.task]
               new == tasks[last.task]
               kept(key, field) == key \notin DOMAIN p => new[field] = old[field]
           IN  /\ DOMAIN tasks = DOMAIN pre.tasks
               /\ \A t \in DOMAIN tasks \ {last.task} : tasks[t] = pre.tasks[t]
               /\ new.board = old.board
               /\ "title" \in DOMAIN p => new.title = strip(p.title)
               /\ "description" \in DOMAIN p => new.description = strip(p.description)
               /\ "status" \in DOMAIN p => new.status = p.status
               /\ "priority" \in DOMAIN p => new.priority = p.priority
               /\ "due_date" \in DOMAIN p => new.due_date = p.due_date
               /\ "assignee_id" \in DOMAIN p => new.assignee = p.assignee_id
               /\ "reviewer_id" \in DOMAIN p => new.reviewer = p.reviewer_id
               /\ kept("title", "title")
               /\ kept("description", "description")
               /\ kept("status", "status")
               /\ kept("priority", "priority")
               /\ kept("due_date", "due_date")
               /\ kept("assignee_id", "assignee")
               /\ kept("reviewer_id", "reviewer")
               /\ comments = pre.comments
               /\ users = pre.users
               /\ boards = pre.boards
               /\ board_members = pre.board_members
               /\ seq = pre.seq

\* The status is set and the assignee is cleared with null, while the
\* reviewer the payload does not mention stays.
C26_Witness ==
    /\ last.op = "task_patch"
    /\ resp.status = HTTP_200_OK
    /\ DOMAIN last.payload = {"status", "assignee_id"}
    /\ last.payload.assignee_id = None
    /\ pre.tasks[last.task].assignee # None
    /\ tasks[last.task].assignee = None
    /\ pre.tasks[last.task].status # last.payload.status
    /\ tasks[last.task].status = last.payload.status
    /\ tasks[last.task].reviewer # None
    /\ tasks[last.task].reviewer = pre.tasks[last.task].reviewer

\* The processes whose replace is under way or over, and those whose replace
\* was committed.
Replacing == {i \in DOMAIN procs : procs[i].pc \notin {"idle", "rejected"}}
Committed == {i \in DOMAIN procs : procs[i].pc = "done"}

\* C21: while board PATCH requests with member lists run concurrently on one
\* board, the explicit members of the board are at every moment the set the
\* board had before the requests or the whole set of one of the requests,
\* never a mixture; when every request is over, the members are the set of
\* a request that was committed, and the set from before the requests when
\* every replace failed part-way.
C21_MembersReplaceAtomic ==
    /\ members(RaceBoard) \in
            {MembersIn(pre.board_members, RaceBoard)} \cup {procs[i].ids : i \in Replacing}
    /\ (\A i \in DOMAIN procs : procs[i].pc \in {"done", "failed", "rejected"})
        => IF Committed # {}
           THEN \E i \in Committed : members(RaceBoard) = procs[i].ids
           ELSE board_members = pre.board_members
    /\ \A i \in DOMAIN procs :
          (procs[i].pc = "failed" /\ Committed = {}) => board_members = pre.board_members

\* Two replaces with different lists that both differ from the stored
\* members overlapped: both read the old members, one was committed and the
\* other failed.
C21_Witness ==
    /\ RaceProcs >= 2
    /\ procs[1].pc = "done"
    /\ procs[2].pc = "failed"
    /\ procs[1].old = procs[2].old
    /\ procs[1].ids # procs[2].ids
    /\ procs[1].ids # procs[1].old
    /\ procs[2].ids # procs[2].old
    /\ procs[1].ids \cup procs[2].ids # procs[1].ids
    /\ members(RaceBoard) = procs[1].ids

====
